---- MODULE Spec2Model ----
(***************************************************************************)
(* Model of the mombasaStays listings API (src/server.js): the Express     *)
(* handlers for /health, /api/listings/nearby, /api/listings/:id,          *)
(* /api/listings/:id/images and /api/admin/listings, and the PostGIS       *)
(* statements they send through the pg pool.                               *)
(*                                                                         *)
(* Every handler validates its input synchronously, sends at most one SQL  *)
(* statement and answers when the pool's promise settles.  The statement   *)
(* is the only access to shared state and it is atomic at the store, so a  *)
(* run of concurrent requests is equivalent to the serial run in the order *)
(* in which the store executes their statements; the model serves one      *)
(* request at a time in that order.  A request is two steps: the handler's *)
(* synchronous prefix (Receive...), then the settling of pool.query        *)
(* (NearbyOk, FetchOk, ImagesOk, CreateOk or StoreFail).                   *)
(*                                                                         *)
(* The pass-through text columns description and location_name take no     *)
(* part in any decision and are left out of the rows.                      *)
(***************************************************************************)
EXTENDS Integers, Sequences, FiniteSets, TLC

VARIABLES
    adminKey,     \* process.env.ADMIN_KEY
    listings,     \* table listings
    nextId,       \* the serial behind listings.id
    pc,           \* "idle": no request in flight; "await": pool.query pending
    req,          \* the request being served, or the last one served
    resp,         \* the response sent for req (status 0 while none is sent)
    sent,         \* statements sent to the store for req
    replies,      \* responses written for req
    outcome,      \* how pool.query settled for req: "none", "ok", "error"
    lastCreated   \* history: id and body coordinates of the last 201

vars == <<adminKey, listings, nextId, pc, req, resp, sent, replies, outcome,
          lastCreated>>

---------------------------------------------------------------------------
(* Bounds *)

\* coordinates are whole grid steps 0..CoordMax on each axis
CoordMax == 2
\* the largest id the serial behind listings.id hands out
MaxListingId == 2

---------------------------------------------------------------------------
(* JavaScript values *)

Undefined == [t |-> "undefined"]
Num(n) == [t |-> "number", n |-> n]
Str(s) == [t |-> "string", s |-> s]

\* ToBoolean, as applied by the ! operator
Truthy(v) ==
    CASE v.t = "undefined" -> FALSE
      [] v.t = "number" -> v.n # 0
      [] v.t = "string" -> v.s # ""

\* decimal text of the numbers the model sends
NumText(n) ==
    CASE n = 0 -> "0" [] n = 1 -> "1" [] n = 2 -> "2" [] n = 3 -> "3"
      [] n = 4 -> "4" [] n = 5 -> "5"

\* the store's reading of a text parameter as a number
TextNum(s) ==
    CASE s = "0" -> 0 [] s = "1" -> 1 [] s = "2" -> 2 [] s = "3" -> 3
      [] s = "4" -> 4 [] s = "5" -> 5

\* a bound parameter as the store casts it to a number
ToNumber(v) == IF v.t = "number" THEN v.n ELSE TextNum(v.s)

Abs(i) == IF i < 0 THEN -i ELSE i

---------------------------------------------------------------------------
(* The store: PostGIS functions and the tables the service reads *)

\* ST_MakePoint(x, y): x is the longitude, y the latitude
ST_MakePoint(x, y) == [x |-> x, y |-> y]
ST_X(p) == p.x
ST_Y(p) == p.y

\* metres between two geography points; a step of longitude is shorter
\* than a step of latitude
ST_Distance(p, q) == 2000 * Abs(p.x - q.x) + 3000 * Abs(p.y - q.y)

ST_DWithin(p, q, r) == ST_Distance(p, q) <= r

users == {[id |-> "h1", name |-> "Asha"]}

listing_images ==
    {[id |-> 1, listing_id |-> 1, image_url |-> "a.jpg"],
     [id |-> 2, listing_id |-> 1, image_url |-> "b.jpg"]}

\* json_agg(json_build_object('id', li.id, 'image_url', li.image_url))
\* over the images of one listing; SQL NULL when there is none
JsonAggImages(lid) ==
    LET items == {[id |-> li.id, image_url |-> li.image_url] :
                    li \in {i \in listing_images : i.listing_id = lid}}
    IN [isNull |-> items = {}, items |-> items]

\* COALESCE(x, '[]'::json)
CoalesceEmpty(agg) == [isNull |-> FALSE, items |-> agg.items]

---------------------------------------------------------------------------
(* Requests and responses *)

NoResp == [status |-> 0, error |-> "", shape |-> "none", rows |-> <<>>]
ErrorJson(status, msg) ==
    [status |-> status, error |-> msg, shape |-> "error", rows |-> <<>>]
ArrayJson(status, rows) ==
    [status |-> status, error |-> "", shape |-> "array", rows |-> rows]
ObjectJson(status, row) ==
    [status |-> status, error |-> "", shape |-> "object", rows |-> <<row>>]

NoQuery == [lat |-> Undefined, lng |-> Undefined, radius |-> Undefined]
NoBody == [host_id |-> Undefined, title |-> Undefined,
           price_kes |-> Undefined, latitude |-> Undefined,
           longitude |-> Undefined]
Request(kind, query, id, key, body) ==
    [kind |-> kind, query |-> query, id |-> id, key |-> key, body |-> body]
NoReq == Request("none", NoQuery, Undefined, Undefined, NoBody)

Coords == 0 .. CoordMax
CoordTexts == {Str(NumText(c)) : c \in Coords}
QueryCoords == {Undefined} \cup CoordTexts
Radii == {Undefined, Str("0")}
Queries == [lat : QueryCoords, lng : QueryCoords, radius : Radii]

IdTexts == {Str(NumText(i)) : i \in 1 .. MaxListingId + 1}
Keys == {Undefined, Str("k1"), Str("k2")}

RequiredFields == {"host_id", "title", "price_kes", "latitude", "longitude"}
FullBody(a, b) ==
    [host_id |-> Str("h1"), title |-> Str("Villa"), price_kes |-> Num(100),
     latitude |-> Num(a), longitude |-> Num(b)]
Bodies ==
    {FullBody(a, b) : a \in 1 .. CoordMax, b \in 1 .. CoordMax}
    \cup {[FullBody(1, 2) EXCEPT ![f] = Undefined] : f \in RequiredFields}
    \cup {[FullBody(1, 2) EXCEPT !.latitude = Num(0)],
          [FullBody(1, 2) EXCEPT !.longitude = Num(0)],
          [FullBody(1, 2) EXCEPT !.price_kes = Num(0)],
          NoBody}

---------------------------------------------------------------------------
(* State after construction *)

\* a listing stored before the service starts, at the grid's origin, with
\* any flags; searches from every grid point see it at every offset
SeedRows ==
    [id : {1}, host_id : {"h1"}, title : {"Seed"}, price_kes : {100},
     location : {ST_MakePoint(0, 0)},
     is_active : BOOLEAN, is_featured : BOOLEAN]

Init ==
    /\ adminKey \in {Undefined, Str("k1")}
    /\ listings \in {{}} \cup {{l} : l \in SeedRows}
    /\ nextId = 2
    /\ pc = "idle"
    /\ req = NoReq
    /\ resp = NoResp
    /\ sent = 0
    /\ replies = 0
    /\ outcome = "none"
    /\ lastCreated = [id |-> 0, latitude |-> 0, longitude |-> 0]

\* a handler answers without touching the store
Respond(r, answer) ==
    /\ pc' = "idle"
    /\ req' = r
    /\ resp' = answer
    /\ sent' = 0
    /\ replies' = 1
    /\ outcome' = "none"
    /\ UNCHANGED <<adminKey, listings, nextId, lastCreated>>

\* a handler sends its statement and awaits pool.query
SendQuery(r) ==
    /\ pc' = "await"
    /\ req' = r
    /\ resp' = NoResp
    /\ sent' = 1
    /\ replies' = 0
    /\ outcome' = "none"
    /\ UNCHANGED <<adminKey, listings, nextId, lastCreated>>

\* GET /health
Health ==
    /\ pc = "idle"
    /\ Respond(Request("health", NoQuery, Undefined, Undefined, NoBody),
               ObjectJson(200, [status |-> "ok"]))

---------------------------------------------------------------------------
(* GET /api/listings/nearby *)

DefaultRadius == 5000

\* if (!lat || !lng)
NearbyInvalidBoth(q) == ~Truthy(q.lat) /\ ~Truthy(q.lng)
NearbyInvalid(q) == ~Truthy(q.lat) \/ ~Truthy(q.lng)

\* const { lat, lng, radius = 5000 } = req.query
RadiusOf(q) == IF q.radius = Undefined THEN Num(DefaultRadius) ELSE q.radius

\* const values = [lng, lat, radius]
NearbyValuesLatFirst(q) == <<q.lat, q.lng, RadiusOf(q)>>
NearbyValues(q) == <<q.lng, q.lat, RadiusOf(q)>>

\* the select list of the nearby statement for one row of listings
NearbyRow(l, center) ==
    [id |-> l.id, host_id |-> l.host_id, title |-> l.title,
     price_kes |-> l.price_kes, is_featured |-> l.is_featured,
     longitude |-> ST_X(l.location), latitude |-> ST_Y(l.location),
     distance |-> ST_Distance(l.location, center),
     images |-> JsonAggImages(l.id)]

\* WHERE l.is_active = true AND ST_DWithin(l.location, center, $3)
NearbyWhereAnyState(l, center, radius) ==
    ST_DWithin(l.location, center, radius)
NearbyWhere(l, center, radius) ==
    l.is_active = TRUE /\ ST_DWithin(l.location, center, radius)

\* ORDER BY l.is_featured DESC, distance ASC: a must come before b
OrderedBeforeByDistance(a, b) == a.distance < b.distance
OrderedBefore(a, b) ==
    \/ a.is_featured /\ ~b.is_featured
    \/ a.is_featured = b.is_featured /\ a.distance < b.distance

\* the result sets the statement may return: rows that tie on the sort key
\* come in any order
NearbySelect(table, values) ==
    LET center == ST_MakePoint(ToNumber(values[1]), ToNumber(values[2]))
        radius == ToNumber(values[3])
        rows == {NearbyRow(l, center) :
                   l \in {m \in table : NearbyWhere(m, center, radius)}}
        n == Cardinality(rows)
    IN {s \in [1 .. n -> rows] :
          /\ \A i, j \in 1 .. n : i # j => s[i] # s[j]
          /\ \A i, j \in 1 .. n : i < j => ~OrderedBefore(s[j], s[i])}

ReceiveNearby ==
    /\ pc = "idle"
    /\ \E q \in Queries :
         LET r == Request("nearby", q, Undefined, Undefined, NoBody)
         IN IF NearbyInvalid(q)
            THEN Respond(r, ErrorJson(400, "lat and lng are required"))
            ELSE SendQuery(r)

\* the store settles a statement: the handler writes its response
Settle(answer, how) ==
    /\ pc' = "idle"
    /\ resp' = answer
    /\ replies' = replies + 1
    /\ outcome' = how
    /\ UNCHANGED <<adminKey, req, sent>>

NearbyOk ==
    /\ pc = "await"
    /\ req.kind = "nearby"
    /\ \E rows \in NearbySelect(listings, NearbyValues(req.query)) :
         Settle(ArrayJson(200, rows), "ok")
    /\ UNCHANGED <<listings, nextId, lastCreated>>

---------------------------------------------------------------------------
(* GET /api/listings/:id *)

\* the select list of the single-listing statement
FetchRow(l, u) ==
    [id |-> l.id, host_id |-> l.host_id, title |-> l.title,
     price_kes |-> l.price_kes, location |-> l.location,
     is_active |-> l.is_active, is_featured |-> l.is_featured,
     latitude |-> ST_X(l.location), longitude |-> ST_Y(l.location),
     host_name |-> u.name,
     images |-> CoalesceEmpty(JsonAggImages(l.id))]

\* FROM listings l JOIN users u ON l.host_id = u.id WHERE l.id = $1
FetchSelect(table, id) ==
    {FetchRow(l, u) : <<l, u>> \in
       {p \in table \X users :
          p[1].host_id = p[2].id /\ p[1].id = ToNumber(id)}}

\* if (result.rows.length === 0) 404, else res.json(result.rows[0])
FetchAnswerEmpty200(rows) ==
    IF rows = {} THEN ArrayJson(200, <<>>)
    ELSE ObjectJson(200, CHOOSE r \in rows : TRUE)
FetchAnswer(rows) ==
    IF rows = {} THEN ErrorJson(404, "Listing not found")
    ELSE ObjectJson(200, CHOOSE r \in rows : TRUE)

ReceiveFetch ==
    /\ pc = "idle"
    /\ \E id \in IdTexts :
         SendQuery(Request("fetch", NoQuery, id, Undefined, NoBody))

FetchOk ==
    /\ pc = "await"
    /\ req.kind = "fetch"
    /\ Settle(FetchAnswer(FetchSelect(listings, req.id)), "ok")
    /\ UNCHANGED <<listings, nextId, lastCreated>>

---------------------------------------------------------------------------
(* GET /api/listings/:id/images *)

RECURSIVE OrderById(_)
OrderById(rows) ==
    IF rows = {} THEN <<>>
    ELSE LET first == CHOOSE r \in rows : \A o \in rows : r.id <= o.id
         IN <<first>> \o OrderById(rows \ {first})

\* SELECT id, image_url FROM listing_images WHERE listing_id = $1 ORDER BY id
ImagesSelect(id) ==
    OrderById({[id |-> li.id, image_url |-> li.image_url] :
                 li \in {i \in listing_images :
                           i.listing_id = ToNumber(id)}})

ReceiveImages ==
    /\ pc = "idle"
    /\ \E id \in IdTexts :
         SendQuery(Request("images", NoQuery, id, Undefined, NoBody))

ImagesOk ==
    /\ pc = "await"
    /\ req.kind = "images"
    /\ Settle(ArrayJson(200, ImagesSelect(req.id)), "ok")
    /\ UNCHANGED <<listings, nextId, lastCreated>>

---------------------------------------------------------------------------
(* POST /api/admin/listings *)

\* if (key !== process.env.ADMIN_KEY)
Unauthorized(key) == key # adminKey

\* if (!host_id || !title || !price_kes || !latitude || !longitude)
MissingRequiredButPrice(body) ==
    \/ ~Truthy(body.host_id)
    \/ ~Truthy(body.title)
    \/ ~Truthy(body.latitude)
    \/ ~Truthy(body.longitude)
MissingRequired(body) ==
    \/ ~Truthy(body.host_id)
    \/ ~Truthy(body.title)
    \/ ~Truthy(body.price_kes)
    \/ ~Truthy(body.latitude)
    \/ ~Truthy(body.longitude)

\* const values = [host_id, title, description, price_kes, longitude,
\*                 latitude, location_name]
CreateValues(body) ==
    <<body.host_id, body.title, Undefined, body.price_kes,
      body.longitude, body.latitude, Undefined>>

\* the row INSERT ... RETURNING * stores: location is
\* ST_MakePoint($5, $6); id, is_active and is_featured are column defaults
InsertRow(values, id) ==
    [id |-> id, host_id |-> values[1].s, title |-> values[2].s,
     price_kes |-> ToNumber(values[4]),
     location |-> ST_MakePoint(ToNumber(values[5]), ToNumber(values[6])),
     is_active |-> TRUE, is_featured |-> FALSE]

ReceiveCreate ==
    /\ pc = "idle"
    /\ \E key \in Keys, body \in Bodies :
         LET r == Request("create", NoQuery, Undefined, key, body)
         IN IF Unauthorized(key)
            THEN Respond(r, ErrorJson(401, "Unauthorized"))
            ELSE IF MissingRequired(body)
            THEN Respond(r, ErrorJson(400, "Missing required fields"))
            ELSE /\ nextId <= MaxListingId
                 /\ SendQuery(r)

CreateOk ==
    /\ pc = "await"
    /\ req.kind = "create"
    /\ LET row == InsertRow(CreateValues(req.body), nextId)
       IN /\ listings' = listings \cup {row}
          /\ nextId' = nextId + 1
          /\ lastCreated' = [id |-> row.id,
                             latitude |-> req.body.latitude.n,
                             longitude |-> req.body.longitude.n]
          /\ Settle(ObjectJson(201, row), "ok")

---------------------------------------------------------------------------
(* catch (error) of the four store-backed handlers *)

CatchAnswerLeaky == ErrorJson(500, "connection terminated unexpectedly")
CatchAnswer == ErrorJson(500, "Internal server error")

\* pool.query rejects: nothing is stored and the handler answers once
StoreFail ==
    /\ pc = "await"
    /\ Settle(CatchAnswer, "error")
    /\ UNCHANGED <<listings, nextId, lastCreated>>

Next ==
    \/ Health
    \/ ReceiveNearby
    \/ NearbyOk
    \/ ReceiveFetch
    \/ FetchOk
    \/ ReceiveImages
    \/ ImagesOk
    \/ ReceiveCreate
    \/ CreateOk
    \/ StoreFail

Spec == Init /\ [][Next]_vars

TypeOK ==
    /\ pc \in {"idle", "await"}
    /\ sent \in 0 .. 1
    /\ replies \in 0 .. 1
    /\ Cardinality(listings) <= MaxListingId
    /\ nextId <= MaxListingId + 1

---------------------------------------------------------------------------
(* Properties *)

\* the search centre and radius as the caller states them: latitude lat,
\* longitude lng, radius in metres, 5000 when absent
CallerCenter == [x |-> ToNumber(req.query.lng), y |-> ToNumber(req.query.lat)]
CallerRadius ==
    IF req.query.radius = Undefined THEN 5000 ELSE ToNumber(req.query.radius)
RowIndexes == 1 .. Len(resp.rows)
NearbyAnswered == req.kind = "nearby" /\ resp.status = 200
BadKey == req.key = Undefined \/ req.key # adminKey
GoodKey == req.key # Undefined /\ req.key = adminKey
SomeFieldAbsent == \E f \in RequiredFields : req.body[f] = Undefined
NoSuchListing == \A l \in listings : l.id # ToNumber(req.id)

\* C1: a POST /api/admin/listings whose x-admin-key is missing or differs
\* from the configured secret (also when no secret is configured) is
\* answered 401 and sends no statement to the store.
C1_BadKeyIs401 ==
    (req.kind = "create" /\ BadKey) => (resp.status = 401 /\ sent = 0)

\* C2: fetching the listing created with latitude a and longitude b returns
\* latitude a and longitude b.
C2_CreateFetchRoundTrip ==
    (/\ req.kind = "fetch"
     /\ resp.status = 200
     /\ lastCreated.id # 0
     /\ ToNumber(req.id) = lastCreated.id)
    => (/\ resp.rows[1].latitude = lastCreated.latitude
        /\ resp.rows[1].longitude = lastCreated.longitude)

\* C3: the rows of a nearby search are exactly the active listings whose
\* distance from the centre (lat, lng) is at most the radius, each reported
\* with a distance within the radius.
C3_NearbyExact ==
    NearbyAnswered =>
      LET inside == {l \in listings :
                       /\ l.is_active
                       /\ ST_Distance(l.location, CallerCenter)
                            <= CallerRadius}
      IN /\ {resp.rows[i].id : i \in RowIndexes} = {l.id : l \in inside}
         /\ Len(resp.rows) = Cardinality(inside)
         /\ \A i \in RowIndexes : resp.rows[i].distance <= CallerRadius

\* a default-radius search that returns one listing and leaves one out
C3_Witness ==
    /\ NearbyAnswered
    /\ req.query.radius = Undefined
    /\ Len(resp.rows) = 1
    /\ Cardinality(listings) = 2

\* C4: in a nearby result every featured row precedes every non-featured
\* row, and within each group the distance is non-decreasing.
C4_NearbyOrdered ==
    NearbyAnswered =>
      \A i, j \in RowIndexes :
        i < j =>
          /\ resp.rows[j].is_featured => resp.rows[i].is_featured
          /\ resp.rows[i].is_featured = resp.rows[j].is_featured
               => resp.rows[i].distance <= resp.rows[j].distance

\* a featured row ahead of a closer non-featured one
C4_Witness ==
    /\ NearbyAnswered
    /\ Len(resp.rows) = 2
    /\ resp.rows[1].is_featured
    /\ ~resp.rows[2].is_featured
    /\ resp.rows[1].distance > resp.rows[2].distance

\* C5 as stated: a fetch of an id that matches no listing is answered 404,
\* never 500 and never 200.
C5_MissingIdIs404 ==
    (req.kind = "fetch" /\ pc = "idle" /\ NoSuchListing)
    => resp.status = 404

\* C5 amended: a fetch of an id that matches no listing is answered 404
\* when its query succeeds and 500 when the query fails, never 200.
C5_MissingIdIs404UnlessStoreFails ==
    (req.kind = "fetch" /\ pc = "idle" /\ NoSuchListing)
    => /\ outcome = "ok" => (resp.status = 404 /\ resp.shape = "error")
       /\ outcome = "error" => resp.status = 500
       /\ resp.status # 200

\* a 404 for an absent id while the table holds other listings
C5_Witness ==
    /\ req.kind = "fetch"
    /\ NoSuchListing
    /\ listings # {}
    /\ outcome = "ok"
    /\ resp.status = 404

\* C6: a nearby search without lat or without lng is answered 400 and sends
\* no query to the store.
C6_MissingCoordinateIs400 ==
    (/\ req.kind = "nearby"
     /\ (req.query.lat = Undefined \/ req.query.lng = Undefined))
    => (resp.status = 400 /\ sent = 0 /\ outcome = "none")

\* lat absent, lng and radius given
C6_Witness ==
    /\ req.kind = "nearby"
    /\ req.query.lat = Undefined
    /\ req.query.lng # Undefined
    /\ req.query.radius # Undefined
    /\ resp.status = 400

\* C7: a create with the correct key and a body lacking one of the five
\* required fields is answered 400 without store access.
C7_MissingFieldIs400 ==
    (req.kind = "create" /\ GoodKey /\ SomeFieldAbsent)
    => (resp.status = 400 /\ sent = 0 /\ outcome = "none")

\* only price_kes absent
C7_Witness ==
    /\ req.kind = "create"
    /\ GoodKey
    /\ req.body.price_kes = Undefined
    /\ \A f \in RequiredFields \ {"price_kes"} : Truthy(req.body[f])
    /\ resp.status = 400

\* C8: when the store query of a handler fails, the request ends with one
\* response, 500 with the fixed generic body, one statement sent, and the
\* server is back to accepting requests.
C8_StoreFailureIs500Once ==
    outcome = "error" =>
      /\ req.kind \in {"nearby", "fetch", "images", "create"}
      /\ resp = ErrorJson(500, "Internal server error")
      /\ sent = 1
      /\ replies = 1
      /\ pc = "idle"
      /\ ENABLED ReceiveImages

\* a failed insert: answered 500, nothing stored
C8_Witness ==
    /\ outcome = "error"
    /\ req.kind = "create"
    /\ resp.status = 500
    /\ \A l \in listings : l.id < nextId
    /\ lastCreated.id = 0

\* C9: an authorized create is answered 400 only when one of the five
\* required fields is absent from the body.
C9_400OnlyWhenAbsent ==
    (req.kind = "create" /\ GoodKey /\ resp.status = 400)
    => SomeFieldAbsent

\* C10: a nearby search centred on the latitude and longitude of the last
\* created listing returns that listing at distance 0 with the created
\* latitude and longitude, whatever the radius.
C10_CreateThenNearby ==
    (/\ NearbyAnswered
     /\ lastCreated.id # 0
     /\ req.query.lat = Str(NumText(lastCreated.latitude))
     /\ req.query.lng = Str(NumText(lastCreated.longitude)))
    => \E i \in RowIndexes :
         /\ resp.rows[i].id = lastCreated.id
         /\ resp.rows[i].distance = 0
         /\ resp.rows[i].latitude = lastCreated.latitude
         /\ resp.rows[i].longitude = lastCreated.longitude

\* radius 0 around a created listing whose latitude and longitude differ
C10_Witness ==
    /\ NearbyAnswered
    /\ lastCreated.id # 0
    /\ lastCreated.latitude # lastCreated.longitude
    /\ req.query.lat = Str(NumText(lastCreated.latitude))
    /\ req.query.lng = Str(NumText(lastCreated.longitude))
    /\ req.query.radius = Str("0")
    /\ Len(resp.rows) = 1

====
